---- MODULE Spec2Model ----
(***************************************************************************)
(* Model of the k6 extension k6/x/s3 (src/s3.go): one virtual user calling *)
(* RandomData, UploadFile, UploadLargeFile, UploadData, DownloadDataRange  *)
(* against one S3-compatible store.                                        *)
(*                                                                         *)
(* The store, the network and the local file system are the environment:  *)
(* a remote request either takes effect and succeeds, or fails and leaves  *)
(* the store unchanged.  manager.Uploader.Upload is the SDK routine called *)
(* at s3.go:121; it is modelled step by step (create, concurrent parts,    *)
(* complete or abort) because its interleavings are what the multipart     *)
(* statements are about.                                                   *)
(***************************************************************************)
EXTENDS Integers, Sequences, FiniteSets, TLC

\* ---------------------------------------------------------------- bounds
MaxDataLen == 2      \* longest buffer handed to UploadData
MaxSize == 2         \* largest size handed to RandomData
BigFileLen == 4      \* length of the large local file
MaxPartSize == 2     \* largest partSize handed to UploadLargeFile
MaxConc == 2         \* largest concurrency handed to UploadLargeFile
MaxOff == 2          \* largest begin/end handed to DownloadDataRange

\* ---------------------------------------------------------------- values
Byte == {0, 1}

Nil == "nil"                      \* the nil error

Buckets == {"bucket", "nobucket"} \* "nobucket" does not exist on the store
ExistingBuckets == {"bucket"}
Keys == {"key"}

FileNames == {"small.bin", "big.bin", "missing.bin"}

RECURSIVE SeqsOfLen(_, _)
SeqsOfLen(S, n) ==
  IF n = 0 THEN {<<>>}
  ELSE {Append(s, x) : s \in SeqsOfLen(S, n - 1), x \in S}

SeqsUpTo(S, n) == UNION {SeqsOfLen(S, i) : i \in 0..n}

Min(a, b) == IF a < b THEN a ELSE b

\* []byte(nil) versus a (possibly empty) allocated buffer
NilBuf == [nil |-> TRUE, bytes |-> <<>>]
Buf(s) == [nil |-> FALSE, bytes |-> s]

\* an object slot of the store
Absent == [exists |-> FALSE, data |-> <<>>]
Object(s) == [exists |-> TRUE, data |-> s]

\* ------------------------------------------------------- local file system
\* os.Open(fileName): the error and, when nil, the bytes the handle yields
FileData(f) ==
  IF f = "big.bin" THEN [i \in 1..BigFileLen |-> i + 1]
  ELSE IF f = "small.bin" THEN <<7, 8>>
  ELSE <<>>

OpenErr(f) == IF f = "missing.bin" THEN "ENOENT" ELSE Nil

\* ---------------------------------------------------------------- state
VARIABLES
  store,   \* [Keys -> object slot] of bucket "bucket"
  pc,      \* "idle", or "multipart" while uploader.Upload is running
  mp,      \* the running manager.Uploader upload
  res,     \* the last returned call, with what happened inside it
  latest,  \* payload of the latest upload to bucket/key that returned nil
  udata    \* buffer of the latest UploadData that returned nil, cleared by
           \* any later write to the object

vars == <<store, pc, mp, res, latest, udata>>

NoPayload == [set |-> FALSE, data |-> <<>>]
Payload(s) == [set |-> TRUE, data |-> s]

NoMp == [bucket |-> "bucket", key |-> "key", file |-> "big.bin",
         partSize |-> 1, conc |-> 1, chunks |-> <<>>, next |-> 1,
         inflight |-> {}, parts |-> <<>>, err |-> Nil, calls |-> 0,
         partFailed |-> FALSE]

NoRes == [op |-> "none", bucket |-> "bucket", key |-> "key", file |-> "",
          data |-> <<>>, err |-> Nil, buf |-> NilBuf, netCalls |-> 0,
          openFailed |-> FALSE, remoteFailed |-> FALSE,
          before |-> Absent, after |-> Absent,
          multipart |-> FALSE, nparts |-> 0, partSize |-> 0, conc |-> 0,
          partFailed |-> FALSE, committed |-> FALSE, order |-> <<>>,
          begin |-> 0, end |-> 0, getFailed |-> FALSE, readFailed |-> FALSE,
          size |-> 0, entropyFailed |-> FALSE]

Init ==
  /\ store = [k \in Keys |-> Absent]
  /\ pc = "idle"
  /\ mp = NoMp
  /\ res = NoRes
  /\ latest = [k \in Keys |-> NoPayload]
  /\ udata = [k \in Keys |-> NoPayload]

\* The slot of bucket/key as the store holds it (no slot in a missing bucket)
Slot(b, k) == IF b \in ExistingBuckets THEN store[k] ELSE Absent

\* ---------------------------------------------------------- RandomData
\* s3.go:54-62.  buf is the buffer after rand.Read: n random bytes, then the
\* zeroes make() put there; readErr is rand.Read's error.
RandomDataResult_Partial(buf, n, readErr) ==
  IF readErr # Nil THEN Buf(SubSeq(buf, 1, n)) ELSE Buf(buf)

RandomDataResult(buf, n, readErr) ==
  IF readErr # Nil THEN NilBuf ELSE Buf(buf)

RandomData(size) ==
  /\ pc = "idle"
  /\ \E fill \in SeqsOfLen(Byte, size), readErr \in {Nil, "entropy"} :
       \E n \in (IF readErr = Nil THEN {size} ELSE 0..(size - 1)) :
         LET buf == [i \in 1..size |-> IF i <= n THEN fill[i] ELSE 0]
         IN  res' = [NoRes EXCEPT !.op = "RandomData", !.size = size,
                       !.entropyFailed = (readErr # Nil),
                       !.buf = RandomDataResult(buf, n, readErr)]
  /\ UNCHANGED <<store, pc, mp, latest, udata>>

\* ------------------------------------------------------------ the store
\* Errors a write request (PutObject, CreateMultipartUpload) can end with.
\* A failed request leaves the store as it was.
WriteOutcomes(b) ==
  IF b \in ExistingBuckets THEN {Nil, "transport", "AccessDenied"}
  ELSE {"NoSuchBucket", "transport"}

\* the store after PutObject(b, k, body) ended with err
PutEffect(b, k, body, err) ==
  IF err = Nil /\ b \in ExistingBuckets
  THEN [store EXCEPT ![k] = Object(body)]
  ELSE store

\* ghost bookkeeping shared by the three uploads
LatestAfter(b, k, data, retErr) ==
  IF retErr = Nil /\ b \in ExistingBuckets
  THEN [latest EXCEPT ![k] = Payload(data)]
  ELSE latest

UdataAfterOtherWrite(b, k, newStore) ==
  IF b \in ExistingBuckets /\ newStore[k] # store[k]
  THEN [udata EXCEPT ![k] = NoPayload]
  ELSE udata

\* ---------------------------------------------------------- UploadFile
\* s3.go:87-90: the request is built only in the else branch of the open
UploadFileSends_Always(openErr) == TRUE

UploadFileSends(openErr) == openErr = Nil

\* s3.go:92 declares a new err with := inside the else block; the err that
\* line 104 returns is the one os.Open assigned at line 87.
UploadFileErr(openErr, putErr) == openErr

UploadFile(b, k, f) ==
  /\ pc = "idle"
  /\ LET openErr == OpenErr(f)
         body == FileData(f)
     IN  IF UploadFileSends(openErr)
         THEN \E putErr \in WriteOutcomes(b) :
                LET ret == UploadFileErr(openErr, putErr)
                    st == PutEffect(b, k, body, putErr)
                IN  /\ store' = st
                    /\ res' = [NoRes EXCEPT !.op = "UploadFile",
                                 !.bucket = b, !.key = k, !.file = f,
                                 !.data = body, !.err = ret, !.netCalls = 1,
                                 !.openFailed = (openErr # Nil),
                                 !.remoteFailed = (putErr # Nil),
                                 !.committed = (putErr = Nil),
                                 !.before = Slot(b, k),
                                 !.after = IF b \in ExistingBuckets
                                           THEN st[k] ELSE Absent]
                    /\ latest' = LatestAfter(b, k, body, ret)
                    /\ udata' = UdataAfterOtherWrite(b, k, st)
         ELSE /\ res' = [NoRes EXCEPT !.op = "UploadFile",
                           !.bucket = b, !.key = k, !.file = f,
                           !.err = UploadFileErr(openErr, Nil),
                           !.openFailed = TRUE,
                           !.before = Slot(b, k), !.after = Slot(b, k)]
              /\ latest' = LatestAfter(b, k, body,
                                       UploadFileErr(openErr, Nil))
              /\ UNCHANGED <<store, udata>>
  /\ UNCHANGED <<pc, mp>>

\* ---------------------------------------------------------- UploadData
\* s3.go:135-146: one err, assigned by PutObject and returned
UploadDataErr_Swallowed(putErr) == Nil

UploadDataErr(putErr) == putErr

UploadData(b, k, data) ==
  /\ pc = "idle"
  /\ \E putErr \in WriteOutcomes(b) :
       LET ret == UploadDataErr(putErr)
           st == PutEffect(b, k, data, putErr)
       IN  /\ store' = st
           /\ res' = [NoRes EXCEPT !.op = "UploadData",
                        !.bucket = b, !.key = k, !.data = data,
                        !.err = ret, !.netCalls = 1,
                        !.remoteFailed = (putErr # Nil),
                        !.committed = (putErr = Nil),
                        !.before = Slot(b, k),
                        !.after = IF b \in ExistingBuckets
                                  THEN st[k] ELSE Absent]
           /\ latest' = LatestAfter(b, k, data, ret)
           /\ udata' = IF b \in ExistingBuckets
                       THEN IF ret = Nil
                            THEN [udata EXCEPT ![k] = Payload(data)]
                            ELSE udata
                       ELSE udata
  /\ UNCHANGED <<pc, mp>>

\* ----------------------------------------------------- UploadLargeFile
\* The body cut into parts of partSize bytes, the last one shorter
\* (manager.Uploader.nextReader on the file handed over at s3.go:124).
RECURSIVE Chunks(_, _)
Chunks(data, partSize) ==
  IF Len(data) = 0 THEN <<>>
  ELSE IF Len(data) <= partSize THEN <<data>>
  ELSE <<SubSeq(data, 1, partSize)>>
         \o Chunks(SubSeq(data, partSize + 1, Len(data)), partSize)

\* The completed parts in ascending part number: the manifest that
\* CompleteMultipartUpload commits.
RECURSIVE SortParts(_)
SortParts(parts) ==
  IF Len(parts) = 0 THEN <<>>
  ELSE LET lo == CHOOSE i \in 1..Len(parts) :
                   \A j \in 1..Len(parts) : parts[i].num <= parts[j].num
           rest == [j \in 1..(Len(parts) - 1) |->
                      IF j < lo THEN parts[j] ELSE parts[j + 1]]
       IN  <<parts[lo]>> \o SortParts(rest)

RECURSIVE Assemble(_)
Assemble(parts) ==
  IF Len(parts) = 0 THEN <<>>
  ELSE Head(parts).data \o Assemble(Tail(parts))

\* s3.go:109-112: the uploader is built only in the else branch of the open
UploadLargeFileSends(openErr) == openErr = Nil

\* s3.go:121 declares a new err with := inside the else block; the err that
\* line 130 returns is the one os.Open assigned at line 109.
UploadLargeFileErr(openErr, uploadErr) == openErr

\* what UploadLargeFile hands back once uploader.Upload returned uploadErr
LargeFileReturn(uploadErr, committed, newStore, calls) ==
  LET ret == UploadLargeFileErr(Nil, uploadErr)
  IN  /\ store' = newStore
      /\ res' = [NoRes EXCEPT !.op = "UploadLargeFile",
                   !.bucket = mp.bucket, !.key = mp.key, !.file = mp.file,
                   !.data = FileData(mp.file), !.err = ret,
                   !.netCalls = calls,
                   !.remoteFailed = (uploadErr # Nil),
                   !.before = Slot(mp.bucket, mp.key),
                   !.after = IF mp.bucket \in ExistingBuckets
                             THEN newStore[mp.key] ELSE Absent,
                   !.multipart = TRUE, !.nparts = Len(mp.chunks),
                   !.partSize = mp.partSize, !.conc = mp.conc,
                   !.partFailed = mp.partFailed, !.committed = committed,
                   !.order = [i \in 1..Len(mp.parts) |-> mp.parts[i].num]]
      /\ latest' = LatestAfter(mp.bucket, mp.key, FileData(mp.file), ret)
      /\ udata' = UdataAfterOtherWrite(mp.bucket, mp.key, newStore)
      /\ pc' = "idle"
      /\ mp' = NoMp

\* The call: open the file, then uploader.Upload starts.  A body of at most
\* one part goes out as a single PutObject; a longer one opens a multipart
\* upload whose parts the steps below send.
UploadLargeFile(b, k, f, partSize, conc) ==
  /\ pc = "idle"
  /\ LET openErr == OpenErr(f)
         body == FileData(f)
     IN  IF ~UploadLargeFileSends(openErr)
         THEN /\ res' = [NoRes EXCEPT !.op = "UploadLargeFile",
                           !.bucket = b, !.key = k, !.file = f,
                           !.err = UploadLargeFileErr(openErr, Nil),
                           !.openFailed = TRUE,
                           !.partSize = partSize, !.conc = conc,
                           !.before = Slot(b, k), !.after = Slot(b, k)]
              /\ latest' = LatestAfter(b, k, body,
                                       UploadLargeFileErr(openErr, Nil))
              /\ UNCHANGED <<store, pc, mp, udata>>
         ELSE IF Len(body) <= partSize
         THEN \E putErr \in WriteOutcomes(b) :
                LET ret == UploadLargeFileErr(openErr, putErr)
                    st == PutEffect(b, k, body, putErr)
                IN  /\ store' = st
                    /\ res' = [NoRes EXCEPT !.op = "UploadLargeFile",
                                 !.bucket = b, !.key = k, !.file = f,
                                 !.data = body, !.err = ret, !.netCalls = 1,
                                 !.openFailed = (openErr # Nil),
                                 !.remoteFailed = (putErr # Nil),
                                 !.committed = (putErr = Nil),
                                 !.partSize = partSize, !.conc = conc,
                                 !.nparts = 1,
                                 !.before = Slot(b, k),
                                 !.after = IF b \in ExistingBuckets
                                           THEN st[k] ELSE Absent]
                    /\ latest' = LatestAfter(b, k, body, ret)
                    /\ udata' = UdataAfterOtherWrite(b, k, st)
                    /\ UNCHANGED <<pc, mp>>
         ELSE \E createErr \in WriteOutcomes(b) :
                IF createErr # Nil
                THEN LET ret == UploadLargeFileErr(openErr, createErr)
                     IN  /\ res' = [NoRes EXCEPT !.op = "UploadLargeFile",
                                      !.bucket = b, !.key = k, !.file = f,
                                      !.data = body, !.err = ret,
                                      !.netCalls = 1,
                                      !.remoteFailed = TRUE,
                                      !.multipart = TRUE,
                                      !.nparts = Len(Chunks(body, partSize)),
                                      !.partSize = partSize, !.conc = conc,
                                      !.before = Slot(b, k),
                                      !.after = Slot(b, k)]
                         /\ latest' = LatestAfter(b, k, body, ret)
                         /\ UNCHANGED <<store, pc, mp, udata>>
                ELSE /\ pc' = "multipart"
                     /\ mp' = [NoMp EXCEPT !.bucket = b, !.key = k,
                                 !.file = f, !.partSize = partSize,
                                 !.conc = conc,
                                 !.chunks = Chunks(body, partSize),
                                 !.calls = 1]
                     /\ UNCHANGED <<store, res, latest, udata>>

\* The uploader hands the next part to a free worker: at most conc parts
\* are in flight, and nothing more is handed out once an error is recorded.
SendPart ==
  /\ pc = "multipart"
  /\ mp.err = Nil
  /\ mp.next <= Len(mp.chunks)
  /\ Cardinality(mp.inflight) < mp.conc
  /\ mp' = [mp EXCEPT !.inflight = @ \cup {mp.next}, !.next = @ + 1]
  /\ UNCHANGED <<store, pc, res, latest, udata>>

\* A worker is done with part n: UploadPart succeeded, UploadPart failed,
\* or the worker saw the recorded error and dropped the part unsent.
PartDone(n, outcome) ==
  /\ pc = "multipart"
  /\ n \in mp.inflight
  /\ outcome = "skip" => mp.err # Nil
  /\ mp' = [mp EXCEPT
              !.inflight = @ \ {n},
              !.parts = IF outcome = "ok"
                        THEN Append(@, [num |-> n, data |-> mp.chunks[n]])
                        ELSE @,
              !.err = IF outcome = "fail" THEN "transport" ELSE @,
              !.partFailed = IF outcome = "fail" THEN TRUE ELSE @,
              !.calls = IF outcome = "skip" THEN @ ELSE @ + 1]
  /\ UNCHANGED <<store, pc, res, latest, udata>>

CommitsManifest_Always(err) == TRUE

\* Whether the uploader commits the manifest: only with no error recorded
CommitsManifest(err) == err = Nil

\* All workers are back.  With an error recorded the upload is aborted;
\* otherwise the sorted manifest is committed, and a failed commit aborts.
FinishUpload ==
  /\ pc = "multipart"
  /\ mp.inflight = {}
  /\ mp.next > Len(mp.chunks) \/ mp.err # Nil
  /\ IF CommitsManifest(mp.err)
     THEN \E completeErr \in {Nil, "transport"} :
            IF completeErr = Nil
            THEN LargeFileReturn(Nil, TRUE,
                   [store EXCEPT ![mp.key] =
                      Object(Assemble(SortParts(mp.parts)))],
                   mp.calls + 1)
            ELSE LargeFileReturn(completeErr, FALSE, store, mp.calls + 2)
     ELSE LargeFileReturn(mp.err, FALSE, store, mp.calls + 1)

\* ---------------------------------------------------- DownloadDataRange
Digit == <<"0", "1", "2", "3", "4", "5", "6", "7", "8", "9">>

\* %d of a non-negative int
RECURSIVE Digits(_)
Digits(n) ==
  IF n < 10 THEN <<Digit[n + 1]>>
  ELSE Digits(n \div 10) \o <<Digit[(n % 10) + 1]>>

\* %d
Itoa(n) == IF n < 0 THEN <<"-">> \o Digits(0 - n) ELSE Digits(n)

FormatRange_Exclusive(begin, end) ==
  <<"bytes=">> \o Itoa(begin) \o <<"-">> \o Itoa(end - 1)

\* s3.go:155  fmt.Sprintf("bytes=%d-%d", begin, end), as a character string
\* after the unit token
FormatRange(begin, end) == <<"bytes=">> \o Itoa(begin) \o <<"-">> \o Itoa(end)

IsDigit(c) == \E i \in 1..10 : Digit[i] = c
DigitVal(c) == (CHOOSE i \in 1..10 : Digit[i] = c) - 1

RECURSIVE Atoi(_)
Atoi(s) ==
  IF Len(s) = 0 THEN 0
  ELSE 10 * Atoi(SubSeq(s, 1, Len(s) - 1)) + DigitVal(s[Len(s)])

\* The store's reading of a Range header (RFC 7233 byte-range-spec with both
\* positions given): ok is FALSE when the header is not of that form.
ParseRange(h) ==
  LET dashes == {i \in 2..Len(h) : h[i] = "-"}
  IN  IF Len(h) < 4 \/ h[1] # "bytes=" \/ dashes = {}
      THEN [ok |-> FALSE, first |-> 0, last |-> 0]
      ELSE LET d == CHOOSE i \in dashes : \A j \in dashes : i <= j
               a == SubSeq(h, 2, d - 1)
               z == SubSeq(h, d + 1, Len(h))
           IN  IF /\ Len(a) > 0 /\ Len(z) > 0
                  /\ \A i \in 1..Len(a) : IsDigit(a[i])
                  /\ \A i \in 1..Len(z) : IsDigit(z[i])
               THEN [ok |-> TRUE, first |-> Atoi(a), last |-> Atoi(z)]
               ELSE [ok |-> FALSE, first |-> 0, last |-> 0]

\* The responses GetObject can end with: err, and the body when err is nil.
\* A satisfiable range yields exactly its bytes, cut at the object's end;
\* any other header is answered as the store pleases (whole object, error,
\* or nothing).
GetResponses(b, k, h) ==
  LET transport == {[err |-> "transport", body |-> <<>>]}
  IN  IF b \notin ExistingBuckets
      THEN transport \cup {[err |-> "NoSuchBucket", body |-> <<>>]}
      ELSE IF ~store[k].exists
      THEN transport \cup {[err |-> "NoSuchKey", body |-> <<>>]}
      ELSE LET obj == store[k].data
               r == ParseRange(h)
           IN  IF r.ok /\ r.first <= r.last /\ r.first < Len(obj)
               THEN transport \cup
                    {[err |-> Nil,
                      body |-> SubSeq(obj, r.first + 1,
                                      Min(r.last, Len(obj) - 1) + 1)]}
               ELSE transport \cup
                    {[err |-> Nil, body |-> obj],
                     [err |-> Nil, body |-> <<>>],
                     [err |-> "InvalidRange", body |-> <<>>]}

DownloadResult_Truncated(getErr, read, readErr) ==
  IF getErr # Nil THEN [buf |-> NilBuf, err |-> getErr]
  ELSE [buf |-> Buf(read), err |-> readErr]

\* s3.go:157-166.  getErr is GetObject's error; read are the bytes
\* io.ReadAll got out of the body before readErr (nil at the body's end).
DownloadResult(getErr, read, readErr) ==
  IF getErr # Nil THEN [buf |-> NilBuf, err |-> getErr]
  ELSE IF readErr # Nil THEN [buf |-> NilBuf, err |-> readErr]
  ELSE [buf |-> Buf(read), err |-> readErr]

DownloadDataRange(b, k, begin, end) ==
  /\ pc = "idle"
  /\ \E resp \in GetResponses(b, k, FormatRange(begin, end)) :
       \E readErr \in (IF resp.err = Nil THEN {Nil, "bodyread"} ELSE {Nil}) :
         \E n \in (IF readErr = Nil THEN {Len(resp.body)}
                   ELSE 0..Len(resp.body)) :
           LET r == DownloadResult(resp.err, SubSeq(resp.body, 1, n), readErr)
           IN  res' = [NoRes EXCEPT !.op = "DownloadDataRange",
                         !.bucket = b, !.key = k,
                         !.begin = begin, !.end = end,
                         !.err = r.err, !.buf = r.buf, !.netCalls = 1,
                         !.getFailed = (resp.err # Nil),
                         !.readFailed = (readErr # Nil),
                         !.remoteFailed = (resp.err # Nil \/ readErr # Nil),
                         !.data = resp.body,
                         !.before = Slot(b, k), !.after = Slot(b, k)]
  /\ UNCHANGED <<store, pc, mp, latest, udata>>

\* ------------------------------------------------------------------ Next
Next ==
  \/ \E size \in 0..MaxSize : RandomData(size)
  \/ \E b \in Buckets, k \in Keys, f \in FileNames : UploadFile(b, k, f)
  \/ \E b \in Buckets, k \in Keys, f \in FileNames :
       \E partSize \in 1..MaxPartSize, conc \in 1..MaxConc :
         UploadLargeFile(b, k, f, partSize, conc)
  \/ SendPart
  \/ \E n \in 1..BigFileLen, outcome \in {"ok", "fail", "skip"} :
       PartDone(n, outcome)
  \/ FinishUpload
  \/ \E b \in Buckets, k \in Keys, d \in SeqsUpTo(Byte, MaxDataLen) :
       UploadData(b, k, d)
  \/ \E b \in Buckets, k \in Keys :
       \E begin \in (0 - 1)..MaxOff, end \in (0 - 1)..MaxOff :
         DownloadDataRange(b, k, begin, end)

Spec == Init /\ [][Next]_vars

\* ---------------------------------------------------------------- claims
Uploads == {"UploadFile", "UploadLargeFile", "UploadData"}

TransportErrs == {"transport", "bodyread"}

\* C1: an upload whose source was obtained and whose remote request failed
\* returns a non-nil error.
C1_FailedUploadReturnsError ==
  (res.op \in Uploads /\ ~res.openFailed /\ res.remoteFailed)
    => res.err # Nil

\* C2: UploadLargeFile returns nil only when every part succeeded and the
\* object was committed before the return.
C2_NilOnlyAfterCommit ==
  (res.op = "UploadLargeFile" /\ res.err = Nil)
    => (~res.partFailed /\ res.committed)

\* C3: when the file cannot be opened, UploadFile and UploadLargeFile return
\* a non-nil error, issue no request, and leave the object as it was.
C3_OpenFailureNoRequest ==
  (res.op \in {"UploadFile", "UploadLargeFile"} /\ res.openFailed)
    => /\ res.err # Nil
       /\ res.netCalls = 0
       /\ res.after = res.before
       /\ Slot(res.bucket, res.key) = res.before

C3_Witness ==
  /\ res.op = "UploadLargeFile"
  /\ res.openFailed
  /\ res.bucket \in ExistingBuckets
  /\ res.before.exists

C5_RoundTrip ==
  (/\ res.op = "DownloadDataRange"
   /\ res.bucket \in ExistingBuckets
   /\ udata[res.key].set
   /\ Len(udata[res.key].data) > 0
   /\ res.begin = 0
   /\ res.end = Len(udata[res.key].data) - 1)
    => \/ res.err \in TransportErrs
       \/ (res.err = Nil /\ res.buf = Buf(udata[res.key].data))

C5_Witness ==
  /\ res.op = "DownloadDataRange"
  /\ res.bucket \in ExistingBuckets
  /\ udata[res.key].set
  /\ Len(udata[res.key].data) = MaxDataLen
  /\ res.begin = 0
  /\ res.end = MaxDataLen - 1
  /\ res.err = Nil
  /\ res.buf = Buf(udata[res.key].data)

\* C6: a multipart UploadLargeFile over at least 3 part boundaries with
\* concurrency above 1 that returns nil leaves the file's bytes, in order,
\* as the object.
C6_MultipartRoundTrip ==
  (/\ res.op = "UploadLargeFile"
   /\ res.err = Nil
   /\ ~res.openFailed
   /\ res.multipart
   /\ res.nparts >= 4
   /\ res.conc > 1)
    => res.after = Object(res.data)

\* C7: DownloadDataRange returns a buffer only when the fetch and the whole
\* body read succeeded; otherwise a non-nil error and a nil buffer.
C7_BufferOnlyOnSuccess ==
  res.op = "DownloadDataRange"
    => /\ (res.getFailed \/ res.readFailed)
            => (res.err # Nil /\ res.buf = NilBuf)
       /\ res.err = Nil => res.buf = Buf(res.data)
       /\ res.err # Nil => res.buf = NilBuf

C7_Witness ==
  /\ res.op = "DownloadDataRange"
  /\ res.readFailed
  /\ Len(res.data) >= 2
  /\ res.buf = NilBuf

\* C8: for 0 <= begin <= end < L on an existing object, a DownloadDataRange
\* that returns nil returns exactly the bytes at offsets begin..end.
C8_InclusiveRange ==
  (/\ res.op = "DownloadDataRange"
   /\ res.bucket \in ExistingBuckets
   /\ res.before.exists
   /\ 0 <= res.begin
   /\ res.begin <= res.end
   /\ res.end < Len(res.before.data)
   /\ res.err = Nil)
    => /\ res.buf = Buf(SubSeq(res.before.data, res.begin + 1, res.end + 1))
       /\ Len(res.buf.bytes) = res.end - res.begin + 1

C8_Witness ==
  /\ res.op = "DownloadDataRange"
  /\ res.before.exists
  /\ Len(res.before.data) = BigFileLen
  /\ res.begin = 0
  /\ res.end = 0
  /\ res.err = Nil
  /\ res.buf = Buf(<<res.before.data[1]>>)

\* C9: a full-range read returns the payload of the latest upload to the
\* bucket/key that returned nil.
C9_LatestPayloadReadable ==
  (/\ res.op = "DownloadDataRange"
   /\ res.bucket \in ExistingBuckets
   /\ latest[res.key].set
   /\ Len(latest[res.key].data) > 0
   /\ res.begin = 0
   /\ res.end = Len(latest[res.key].data) - 1
   /\ res.err = Nil)
    => res.buf = Buf(latest[res.key].data)

\* C10: RandomData(size) returns size bytes when the entropy read succeeded
\* and nil when it failed, never a buffer of another length.
C10_RandomDataLength ==
  res.op = "RandomData"
    => /\ Len(res.buf.bytes) \in {0, res.size}
       /\ res.entropyFailed => Len(res.buf.bytes) = 0
       /\ ~res.entropyFailed
            => (~res.buf.nil /\ Len(res.buf.bytes) = res.size)

C10_Witness ==
  /\ res.op = "RandomData"
  /\ res.size = MaxSize
  /\ ~res.entropyFailed
  /\ Len(res.buf.bytes) = MaxSize
====
